---- MODULE Spec2Model ----
(***************************************************************************)
(* Model of ComposioAPIComponent (langflow/components/composio/            *)
(* composio_api.py): the update_build_config hook, the status helpers      *)
(* _check_for_authorization / _handle_authorization_failure /              *)
(* _process_api_key_auth, the app-name normalisation and the app / action  *)
(* catalog refresh.                                                        *)
(*                                                                         *)
(* Python strings are sequences of one-character strings, so that          *)
(* str.replace, str.lower, str.startswith and the "in" substring test are  *)
(* computed character by character as the code computes them.  The vendor  *)
(* SDK is the environment: each of its calls returns or raises one of a    *)
(* small set of outcomes, chosen nondeterministically.                     *)
(***************************************************************************)
EXTENDS Integers, Sequences, FiniteSets, TLC

VARIABLES
    catalog,       \* App.__annotations__ / Action.__annotations__ of the vendor library
    build_config,  \* the configuration the hook receives and returns
    event,         \* the entry point last called, its arguments and the attributes it read
    calls,         \* the vendor calls made by the last call, in order
    result         \* how the last call ended: raised or returned (and what)

vars == <<catalog, build_config, event, calls, result>>

----------------------------------------------------------------------------
(* Python str operations *)

UpperChars == <<"A","B","C","D","E","F","G","H","I","J","K","L","M","N","O","P","Q","R","S","T","U","V","W","X","Y","Z">>
LowerChars == <<"a","b","c","d","e","f","g","h","i","j","k","l","m","n","o","p","q","r","s","t","u","v","w","x","y","z">>

LowerMap ==
    [c \in {UpperChars[i] : i \in 1..Len(UpperChars)} |->
        LowerChars[CHOOSE i \in 1..Len(UpperChars) : UpperChars[i] = c]]

\* one character of str.lower()
LowerChar(c) == IF c \in DOMAIN LowerMap THEN LowerMap[c] ELSE c

\* str.lower()
Lower(s) == [i \in 1..Len(s) |-> LowerChar(s[i])]

\* s.startswith(p)
StartsWith(s, p) == Len(p) <= Len(s) /\ SubSeq(s, 1, Len(p)) = p

\* p in s  (substring test)
Contains(s, p) ==
    \E i \in 1..(Len(s) - Len(p) + 1) : SubSeq(s, i, i + Len(p) - 1) = p

\* s.replace(old, ""): every non-overlapping occurrence of old, left to right
RECURSIVE Remove(_, _)
Remove(s, old) ==
    IF s = <<>> THEN <<>>
    ELSE IF StartsWith(s, old) THEN Remove(SubSeq(s, Len(old) + 1, Len(s)), old)
    ELSE <<Head(s)>> \o Remove(Tail(s), old)

Range(xs) == {xs[i] : i \in 1..Len(xs)}

----------------------------------------------------------------------------
(* String literals of the component *)

EMPTY == <<>>
NOT_CONNECTED == <<"N","o","t"," ","C","o","n","n","e","c","t","e","d">>
ENTER_API_KEY == <<"E","n","t","e","r"," ","A","P","I"," ","K","e","y">>
CLICK_LINK == <<"C","l","i","c","k"," ","l","i","n","k"," ","t","o"," ","a","u","t","h","e","n","t","i","c","a","t","e">>
CONNECTED_TAIL == <<" ","C","O","N","N","E","C","T","E","D">>
ERROR_HEAD == <<"E","r","r","o","r",":"," ">>
ERROR_PLAIN == <<"E","r","r","o","r">>
SUFFIX_UPPER == <<"_","C","O","N","N","E","C","T","E","D">>
SUFFIX_LOWER == <<"_","c","o","n","n","e","c","t","e","d">>
UNDERSCORE == <<"_">>
API_KEY_MODE == "API_KEY"

----------------------------------------------------------------------------
(* The vendor SDK: catalogs, outcomes of its calls *)

\* Length bound of the message text carried by a vendor exception
MaxMsgLen == 1

GIT == <<"G","I","T">>
GITHUB == <<"G","I","T","H","U","B">>
HUB == <<"H","U","B">>

\* App.__annotations__ and Action.__annotations__ : ordered, without duplicates
Catalogs ==
    { [apps |-> <<GIT, GITHUB>>,
       actions |-> <<<<"G","I","T","H","U","B","_","S","T","A","R">>, <<"G","I","T","_","P","U","S","H">>, <<"G","i","t","_","L","o","g">>, <<"G","I","T","X">>>>],
      [apps |-> <<HUB, GIT>>,
       actions |-> <<<<"G","I","T","_","P","U","S","H">>, <<"G","I","T","H","U","B","_","S","T","A","R">>>>] }

RECURSIVE Repeat(_, _)
Repeat(c, n) == IF n = 0 THEN <<>> ELSE <<c>> \o Repeat(c, n - 1)

Messages == { Repeat("x", n) : n \in 0..MaxMsgLen }

NoExc == [kind |-> "none", msg |-> EMPTY]

\* composio.client.exceptions.NoItemsFound, and any other exception of the SDK
VendorErrors ==
    { [kind |-> "NoItemsFound", msg |-> <<"n","o","n","e">>] }
        \cup { [kind |-> "HTTPError", msg |-> m] : m \in Messages }

\* auth_schemes[0] of an empty list
IndexError == [kind |-> "IndexError", msg |-> <<"l","i","s","t"," ","i","n","d","e","x"," ","o","u","t"," ","o","f"," ","r","a","n","g","e">>]

\* reading an attribute the host never set
AttributeError == [kind |-> "AttributeError", msg |-> <<"a","u","t","h","_","s","t","a","t","u","s","_","c","o","n","f","i","g">>]

Returned(v) == [raised |-> FALSE, exc |-> NoExc, value |-> v]
Raised(e) == [raised |-> TRUE, exc |-> e, value |-> EMPTY]

\* toolset.client.get_entity(id=self.entity_id)
GetEntityResults == {Returned(EMPTY)} \cup {Raised(e) : e \in VendorErrors}

\* entity.get_connection(app=app)
GetConnectionResults == {Returned(EMPTY)} \cup {Raised(e) : e \in VendorErrors}

\* toolset.client.apps.get(app).auth_schemes : the auth modes, in declared order
AuthSchemeLists ==
    { <<>>, <<"API_KEY", "OAUTH2">>, <<"OAUTH2", "API_KEY">> }

AppsGetResults ==
    {[raised |-> FALSE, exc |-> NoExc, value |-> s] : s \in AuthSchemeLists}
        \cup {[raised |-> TRUE, exc |-> e, value |-> <<>>] : e \in VendorErrors}

\* connection.redirectUrl of entity.initiate_connection(...): the SDK types it as an
\* optional string, so it may be empty
RedirectUrls == { EMPTY, <<"h","t","t","p","s",":","/","/","a">> }

InitiateResults == {Returned(u) : u \in RedirectUrls} \cup {Raised(e) : e \in VendorErrors}

\* connection.appUniqueId of the entity's connections: lowercase app ids, and
\* an id of no catalogued app
ForeignId == <<"z","o","o","m">>

ConnectedIdSets(cat) == SUBSET ({Lower(a) : a \in Range(cat.apps)} \cup {ForeignId})

GetConnectionsResults(cat) ==
    {[raised |-> FALSE, exc |-> NoExc, value |-> ids] : ids \in ConnectedIdSets(cat)}
        \cup {[raised |-> TRUE, exc |-> e, value |-> {}] : e \in VendorErrors}

\* one entry of the log of vendor calls
Call(op, app, r) == [op |-> op, app |-> app, exc |-> r.exc.kind, value |-> r.value]

----------------------------------------------------------------------------
(* ComposioAPIComponent *)

\* inputs: options of app_names, values of app_names, auth_link, auth_status,
\* options and value of action_names
InitialConfig(cat) ==
    [ app_options |-> cat.apps,
      app_value |-> EMPTY,
      auth_link |-> EMPTY,
      auth_status |-> NOT_CONNECTED,
      action_options |-> <<>>,
      action_value |-> <<>> ]

\* the guard without the test for the empty string
has_api_key_attr_only(api_key) == api_key.has

\* hasattr(self, "api_key") and self.api_key != ""
has_api_key(api_key) == api_key.has /\ api_key.value # EMPTY

\* _build_wrapper: ComposioToolSet(api_key=self.api_key)
build_wrapper == Call("ComposioToolSet", EMPTY, Returned(EMPTY))

\* _get_normalized_app_name
get_normalized_app_name(app_names) ==
    Remove(Remove(app_names, SUFFIX_UPPER), SUFFIX_LOWER)

\* _initiate_default_connection: the call made and the redirect URL, or the exception
initiate_default_connection(app) ==
    { [call |-> Call("initiate_connection", app, r), r |-> r] : r \in InitiateResults }

\* connected_status without the clearing of the auth link
connected_status_keeps_link(cfg, app) ==
    [cfg EXCEPT !.auth_status = app \o CONNECTED_TAIL]

\* the connection lookup returned
connected_status(cfg, app) ==
    [cfg EXCEPT !.auth_status = app \o CONNECTED_TAIL, !.auth_link = EMPTY]

\* the first auth scheme is API_KEY
enter_api_key_status(cfg) ==
    [cfg EXCEPT !.auth_status = ENTER_API_KEY, !.auth_link = EMPTY]

\* link_status that drops the redirect URL
link_status_drops_url(cfg, auth_url) ==
    [cfg EXCEPT !.auth_status = CLICK_LINK]

\* any other first auth scheme: the redirect URL of the initiated connection
link_status(cfg, auth_url) ==
    [cfg EXCEPT !.auth_link = auth_url, !.auth_status = CLICK_LINK]

\* error_status without the clearing of the auth link
error_status_keeps_link(cfg, e) ==
    [cfg EXCEPT !.auth_status = ERROR_HEAD \o e.msg]

\* except Exception as e
error_status(cfg, e) ==
    [cfg EXCEPT !.auth_link = EMPTY, !.auth_status = ERROR_HEAD \o e.msg]

\* a handler that catches every exception instead
is_any_exception(e) == TRUE

\* except NoItemsFound
is_no_items_found(e) == e.kind = "NoItemsFound"

\* auth_schemes[0].auth_mode == "API_KEY"
uses_api_key(auth_schemes) == auth_schemes[1] = API_KEY_MODE

\* the "Check auth status" block: the configurations it can leave, each with
\* the vendor calls made on the way
check_auth_status(cfg, app_name) ==
    UNION { 
      IF ent.raised
      THEN { [cfg |-> error_status(cfg, ent.exc),
              calls |-> <<build_wrapper, Call("get_entity", EMPTY, ent)>>] }
      ELSE UNION {
        LET pre == <<build_wrapper, Call("get_entity", EMPTY, ent),
                     Call("get_connection", app_name, con)>>
        IN  IF ~con.raised
            THEN { [cfg |-> connected_status(cfg, app_name), calls |-> pre] }
            ELSE IF ~is_no_items_found(con.exc)
            THEN { [cfg |-> error_status(cfg, con.exc), calls |-> pre] }
            ELSE UNION {
              LET pre2 == Append(pre, Call("apps.get", app_name, sch))
              IN  IF sch.raised
                  THEN { [cfg |-> error_status(cfg, sch.exc), calls |-> pre2] }
                  ELSE IF sch.value = <<>>
                  THEN { [cfg |-> error_status(cfg, IndexError), calls |-> pre2] }
                  ELSE IF uses_api_key(sch.value)
                  THEN { [cfg |-> enter_api_key_status(cfg), calls |-> pre2] }
                  ELSE { [cfg |-> IF i.r.raised THEN error_status(cfg, i.r.exc)
                                  ELSE link_status(cfg, i.r.value),
                          calls |-> Append(pre2, i.call)]
                         : i \in initiate_default_connection(app_name) }
              : sch \in AppsGetResults }
        : con \in GetConnectionResults }
      : ent \in GetEntityResults }

\* the prefix test without the separating underscore
is_action_of_no_separator(action_name, app_name) ==
    StartsWith(Lower(action_name), Lower(app_name))

\* action_name.lower().startswith(app_name.lower() + "_")
is_action_of(action_name, app_name) ==
    StartsWith(Lower(action_name), Lower(app_name) \o UNDERSCORE)

\* the "Update action names" block
update_action_names(cfg, all_action_names, app_name) ==
    LET Keep(action_name) == is_action_of(action_name, app_name)
        app_action_names == SelectSeq(all_action_names, Keep)
    IN  [cfg EXCEPT !.action_options = app_action_names,
                    !.action_value = IF app_action_names # <<>>
                                     THEN <<app_action_names[1]>> ELSE <<EMPTY>>]

\* the membership test without lower()
is_connected_app_case_sensitive(app_name, connected_app_names) ==
    app_name \in connected_app_names

\* app_name.lower() in connected_app_names
is_connected_app(app_name, connected_app_names) ==
    Lower(app_name) \in connected_app_names

\* the two list comprehensions and the assignments of
\* _update_app_names_with_connected_status
annotate_app_names(cfg, all_apps, connected_app_names) ==
    LET IsCon(a) == is_connected_app(a, connected_app_names)
        NotCon(a) == ~is_connected_app(a, connected_app_names)
        connected == SelectSeq(all_apps, IsCon)
        app_names == [i \in 1..Len(connected) |-> connected[i] \o SUFFIX_UPPER]
        non_connected_app_names == SelectSeq(all_apps, NotCon)
    IN  [cfg EXCEPT !.app_options = app_names \o non_connected_app_names,
                    !.app_value = IF app_names # <<>> THEN app_names[1] ELSE EMPTY]

\* _get_connected_app_names_for_entity, then _update_app_names_with_connected_status:
\* an exception of the vendor is not caught here
update_app_names_with_connected_status(cfg, cat) ==
    UNION {
      IF ent.raised
      THEN { [cfg |-> cfg, result |-> Raised(ent.exc),
              calls |-> <<build_wrapper, Call("get_entity", EMPTY, ent)>>] }
      ELSE { [cfg |-> IF cons.raised THEN cfg
                      ELSE annotate_app_names(cfg, cat.apps, cons.value),
              result |-> IF cons.raised THEN Raised(cons.exc) ELSE Returned(EMPTY),
              calls |-> <<build_wrapper, Call("get_entity", EMPTY, ent),
                          Call("get_connections", EMPTY, cons)>>]
             : cons \in GetConnectionsResults(cat) }
      : ent \in GetEntityResults }

\* update_build_config(build_config, field_value, field_name)
update_build_config(cfg, field_name, api_key, app_names, cat) ==
    IF field_name = "api_key"
    THEN IF has_api_key(api_key)
         THEN update_app_names_with_connected_status(cfg, cat)
         ELSE { [cfg |-> cfg, result |-> Returned(EMPTY), calls |-> <<>>] }
    ELSE IF field_name = "app_names" /\ has_api_key(api_key)
    THEN LET app_name == get_normalized_app_name(app_names)
         IN  { [cfg |-> update_action_names(s.cfg, cat.actions, app_name),
                result |-> Returned(EMPTY),
                calls |-> s.calls] : s \in check_auth_status(cfg, app_name) }
    ELSE { [cfg |-> cfg, result |-> Returned(EMPTY), calls |-> <<>>] }

\* _process_api_key_auth: what it returns or raises, with the vendor calls it makes
process_api_key_auth(app, auth_status_config) ==
    IF ~auth_status_config.has
    THEN { [r |-> Raised(AttributeError), calls |-> <<>>] }
    ELSE
      LET text == auth_status_config.value
          is_url == Contains(text, <<"h","t","t","p">>) \/ Contains(text, <<"h","t","t","p","s">>)
          is_different_app == Contains(text, <<"C","O","N","N","E","C","T","E","D">>) /\ ~Contains(text, app)
          is_default_api_key_message == Contains(text, <<"A","P","I"," ","K","e","y">>)
      IN  IF is_different_app \/ is_url \/ is_default_api_key_message
          THEN { [r |-> Returned(ENTER_API_KEY), calls |-> <<>>] }
          ELSE IF ~is_default_api_key_message
          THEN { [r |-> IF c.raised THEN Raised(c.exc)
                        ELSE Returned(app \o CONNECTED_TAIL),
                  calls |-> <<Call("initiate_connection(API_KEY)", app, c)>>]
                 : c \in InitiateResults }
          ELSE { [r |-> Returned(ENTER_API_KEY), calls |-> <<>>] }

\* _handle_authorization_failure, entered with the calls made so far
handle_authorization_failure(app, auth_status_config, pre) ==
    UNION {
      LET pre2 == Append(pre, Call("apps.get", app, sch))
      IN  IF sch.raised \/ sch.value = <<>>
          THEN { [result |-> Returned(ERROR_PLAIN), calls |-> pre2] }
          ELSE IF uses_api_key(sch.value)
          THEN { [result |-> IF k.r.raised THEN Returned(ERROR_PLAIN) ELSE k.r,
                  calls |-> pre2 \o k.calls]
                 : k \in process_api_key_auth(app, auth_status_config) }
          ELSE { [result |-> IF i.r.raised THEN Returned(ERROR_PLAIN)
                             ELSE Returned(i.r.value),
                  calls |-> Append(pre2, i.call)]
                 : i \in initiate_default_connection(app) }
      : sch \in AppsGetResults }

\* _check_for_authorization(app)
check_for_authorization(app, auth_status_config) ==
    UNION {
      IF ent.raised
      THEN { [result |-> Raised(ent.exc),
              calls |-> <<build_wrapper, Call("get_entity", EMPTY, ent)>>] }
      ELSE UNION {
        LET pre == <<build_wrapper, Call("get_entity", EMPTY, ent),
                     Call("get_connection", app, con)>>
        IN  IF ~con.raised
            THEN { [result |-> Returned(app \o CONNECTED_TAIL), calls |-> pre] }
            ELSE handle_authorization_failure(app, auth_status_config, pre)
        : con \in GetConnectionResults }
      : ent \in GetEntityResults }

----------------------------------------------------------------------------
(* The host framework *)

FieldNames == {"api_key", "app_names", "entity_id", "None"}

NoAttr == [has |-> FALSE, value |-> EMPTY]
Attr(v) == [has |-> TRUE, value |-> v]

\* self.api_key: never set, empty, or a key
ApiKeys == { NoAttr, Attr(EMPTY), Attr(<<"k">>) }

\* self.app_names: nothing selected, an app, or an app in a display form
\* carrying the connected suffix.  The value is whatever the host stored for the
\* field (a saved flow, a value set through the API), not only an option generated
\* at line 143: line 153 itself strips a lowercase spelling that no generated
\* option has.
SuffixForms == { SUFFIX_UPPER, SUFFIX_LOWER, <<"_","C","o","n","n","e","c","t","e","d">> }

DisplayNames(cat) ==
    {EMPTY} \cup Range(cat.apps)
        \cup { a \o x : a \in Range(cat.apps), x \in SuffixForms }

NoEvent ==
    [op |-> "none", field_name |-> "None", api_key |-> NoAttr, app_names |-> EMPTY,
     app |-> EMPTY, auth_status_config |-> NoAttr]

Init ==
    /\ catalog \in Catalogs
    /\ build_config = InitialConfig(catalog)
    /\ event = NoEvent
    /\ calls = <<>>
    /\ result = Returned(EMPTY)

\* the host calls update_build_config after a field changed; self.app_names is
\* read by the app_names branch only and is recorded as empty elsewhere
UpdateBuildConfig ==
    \E f \in FieldNames, k \in ApiKeys :
      \E n \in IF f = "app_names" /\ has_api_key(k)
                THEN DisplayNames(catalog) ELSE {EMPTY} :
        \E o \in update_build_config(build_config, f, k, n, catalog) :
          /\ build_config' = o.cfg
          /\ calls' = o.calls
          /\ result' = o.result
          /\ event' = [NoEvent EXCEPT !.op = "update_build_config", !.field_name = f,
                                      !.api_key = k, !.app_names = n]
          /\ UNCHANGED catalog

\* self.auth_status_config: never set, a status text of the component, a
\* redirect URL shown as status, or a key typed by the user
OwnStatusTexts(cat) ==
    { NOT_CONNECTED, ENTER_API_KEY, CLICK_LINK, ERROR_PLAIN }
        \cup { a \o CONNECTED_TAIL : a \in Range(cat.apps) }

UserKey == <<"s","k","-","1">>

AuthStatusConfigs(cat) ==
    {NoAttr} \cup { Attr(t) : t \in OwnStatusTexts(cat) \cup (RedirectUrls \ {EMPTY})
                                       \cup {UserKey} }

\* a caller resolves the status of an app through _check_for_authorization
CheckForAuthorization ==
    \E app \in Range(catalog.apps), p \in AuthStatusConfigs(catalog) :
      \E o \in check_for_authorization(app, p) :
        /\ calls' = o.calls
        /\ result' = o.result
        /\ event' = [NoEvent EXCEPT !.op = "_check_for_authorization", !.app = app,
                                    !.auth_status_config = p]
        /\ UNCHANGED <<catalog, build_config>>

Next == UpdateBuildConfig

\* the host framework drives the component through update_build_config
Spec == Init /\ [][Next]_vars

\* the status helper, which update_build_config does not call, driven directly
SpecHelper == Init /\ [][CheckForAuthorization]_vars

----------------------------------------------------------------------------
(* Reading the last call *)

IsUpdate == event.op = "update_build_config"
IsHelper == event.op = "_check_for_authorization"

KeyGiven(api_key) == api_key.has /\ Len(api_key.value) > 0

\* update_build_config handled an app_names event with a non-empty API key
AppNamesEvent == IsUpdate /\ event.field_name = "app_names" /\ KeyGiven(event.api_key)

\* update_build_config handled an api_key event with a non-empty API key
ApiKeyEvent == IsUpdate /\ event.field_name = "api_key" /\ KeyGiven(event.api_key)

CallsOf(ops) == { i \in DOMAIN calls : calls[i].op \in ops }

LookupOps == {"get_connection", "apps.get", "initiate_connection", "initiate_connection(API_KEY)"}
InitiateOps == {"initiate_connection", "initiate_connection(API_KEY)"}

\* the connection lookup reported 'not found'
LookupNotFound ==
    \E i \in CallsOf({"get_connection"}) : calls[i].exc = "NoItemsFound"

\* the connection lookup reported a connection
LookupFound == \E i \in CallsOf({"get_connection"}) : calls[i].exc = "none"

\* the auth-scheme lookup returned at least one scheme
SchemesReturned ==
    \E i \in CallsOf({"apps.get"}) : calls[i].exc = "none" /\ Len(calls[i].value) > 0

FirstScheme == calls[CHOOSE i \in CallsOf({"apps.get"}) : TRUE].value[1]

\* a vendor call of the status check raised, other than the lookup saying 'not found'
VendorFailure ==
    \E i \in DOMAIN calls :
        /\ calls[i].exc # "none"
        /\ ~(calls[i].op = "get_connection" /\ calls[i].exc = "NoItemsFound")

\* the status the last status check resolved to
ResolvedStatus == IF IsUpdate THEN build_config.auth_status ELSE result.value

\* the name the code passes on as app_name
NormalizedName == get_normalized_app_name(event.app_names)

EndsWith(s, p) == Len(p) <= Len(s) /\ SubSeq(s, Len(s) - Len(p) + 1, Len(s)) = p

----------------------------------------------------------------------------
(* Claims *)

\* C1: a vendor exception during a status check (entity lookup, connection lookup
\* failing with anything but 'not found', auth-scheme lookup, connection initiation)
\* never reaches the caller: the check returns, the status begins with "Error:" and
\* the auth link is empty; in update_build_config on an app_names event and in
\* _check_for_authorization alike.
C1_VendorFailureBecomesErrorStatus ==
    ((AppNamesEvent \/ IsHelper) /\ VendorFailure)
        => /\ ~result.raised
           /\ StartsWith(ResolvedStatus, <<"E","r","r","o","r",":">>)
           /\ build_config.auth_link = EMPTY

\* C2: no connection, first auth scheme API_KEY, and a prior status that is one of
\* the component's own status messages: the status resolves to "Enter API Key" and the
\* app is not reported as connected.
C2_OwnStatusIsNotAKey ==
    ( /\ AppNamesEvent \/ IsHelper
      /\ LookupNotFound
      /\ SchemesReturned /\ FirstScheme = API_KEY_MODE
      /\ IsHelper => /\ event.auth_status_config.has
                     /\ event.auth_status_config.value \in OwnStatusTexts(catalog) )
        => /\ ~result.raised
           /\ ResolvedStatus = ENTER_API_KEY
           /\ ~EndsWith(ResolvedStatus, <<"C","O","N","N","E","C","T","E","D">>)

\* the display name without a trailing "_CONNECTED" in any letter case
StripSuffixAnyCase(s) ==
    IF Len(s) >= Len(SUFFIX_LOWER)
         /\ Lower(SubSeq(s, Len(s) - Len(SUFFIX_LOWER) + 1, Len(s))) = SUFFIX_LOWER
    THEN SubSeq(s, 1, Len(s) - Len(SUFFIX_LOWER))
    ELSE s

\* C3: a "_CONNECTED" suffix of the selected app's display name is removed in any
\* letter case and nothing else is; every vendor lookup of the app_names event and the
\* action-prefix filter receive the name without the suffix.
C3_SuffixStrippedInAnyCase ==
    AppNamesEvent =>
        LET name == StripSuffixAnyCase(event.app_names)
            Keep(a) == is_action_of(a, name)
        IN  /\ \A i \in CallsOf(LookupOps) : calls[i].app = name
            /\ build_config.action_options = SelectSeq(catalog.actions, Keep)

\* C4: on an app_names event with a non-empty API key for which the vendor reports a
\* connection of the normalized app, auth_status is "<app> CONNECTED" and auth_link
\* is empty, whatever they held before.
C4_ConnectedStatusClearsLink ==
    (AppNamesEvent /\ LookupFound)
        => /\ \A i \in CallsOf({"get_connection"}) : calls[i].app = NormalizedName
           /\ build_config.auth_status = NormalizedName \o <<" ","C","O","N","N","E","C","T","E","D">>
           /\ build_config.auth_link = EMPTY

C4_Witness ==
    /\ AppNamesEvent /\ LookupFound
    /\ event.app_names = GIT \o SUFFIX_UPPER
    /\ build_config.auth_status = <<"G","I","T"," ","C","O","N","N","E","C","T","E","D">>

\* the redirect URL the connection initiation returned
InitiateReturned ==
    \E i \in CallsOf({"initiate_connection"}) : calls[i].exc = "none"

ReturnedUrl == calls[CHOOSE i \in CallsOf({"initiate_connection"}) : TRUE].value

LinkBasedCase ==
    /\ AppNamesEvent /\ LookupNotFound
    /\ SchemesReturned /\ FirstScheme # API_KEY_MODE
    /\ InitiateReturned

HasAppPrefix(a, app) ==
    /\ Len(a) > Len(app)
    /\ \A i \in 1..Len(app) : LowerChar(a[i]) = LowerChar(app[i])
    /\ a[Len(app) + 1] = "_"

PositionIn(xs, x) == CHOOSE i \in DOMAIN xs : xs[i] = x

ListedIds == calls[CHOOSE i \in CallsOf({"get_connections"}) : TRUE].value

HasConnection(app) == Lower(app) \in ListedIds

Annotated(app) == app \o <<"_","C","O","N","N","E","C","T","E","D">>

Occurrences(xs, x) == Cardinality({ i \in DOMAIN xs : xs[i] = x })

\* C7: after an api_key event with a non-empty API key, the app_names options hold
\* every known app exactly once, annotated "<app>_CONNECTED" if it has a connection
\* and bare if not, annotated ones first; app_names value is the first annotated
\* app, or empty when no app is connected.
C7_AppOptionsAnnotated ==
    (ApiKeyEvent /\ ~result.raised) =>
        LET opts == build_config.app_options
            apps == catalog.apps
            annotated == { Annotated(a) : a \in Range(apps) }
            connected == { i \in DOMAIN apps : HasConnection(apps[i]) }
        IN  /\ Len(opts) = Len(apps)
            /\ \A a \in Range(apps) :
                 IF HasConnection(a)
                 THEN Occurrences(opts, Annotated(a)) = 1 /\ Occurrences(opts, a) = 0
                 ELSE Occurrences(opts, a) = 1 /\ Occurrences(opts, Annotated(a)) = 0
            /\ \A i, j \in DOMAIN opts :
                 (i < j /\ opts[j] \in annotated) => opts[i] \in annotated
            /\ build_config.app_value =
                 IF connected = {} THEN EMPTY
                 ELSE Annotated(apps[CHOOSE i \in connected : \A j \in connected : i <= j])

C7_Witness ==
    /\ ApiKeyEvent /\ ~result.raised
    /\ catalog.apps = <<HUB, GIT>>
    /\ build_config.app_options = << <<"G","I","T","_","C","O","N","N","E","C","T","E","D">>, HUB >>
    /\ build_config.app_value = <<"G","I","T","_","C","O","N","N","E","C","T","E","D">>

\* C8: auth_link is non-empty only if auth_status is "Click link to authenticate".
C8_LinkOnlyWithClickStatus ==
    build_config.auth_link # EMPTY => build_config.auth_status = CLICK_LINK

\* a pending link, kept by a later event that does not own it
C8_Witness ==
    /\ build_config.auth_link # EMPTY
    /\ build_config.auth_status = CLICK_LINK
    /\ ApiKeyEvent

\* C9: an api_key event changes at most the options and the value of app_names; an
\* event for any other field than api_key or app_names, and any event while the API
\* key is unset or empty, returns the configuration unchanged and calls no vendor.
C9_FrameEffect ==
    [][ event'.op = "update_build_config" =>
          /\ event'.field_name = "api_key" =>
                /\ build_config'.auth_status = build_config.auth_status
                /\ build_config'.auth_link = build_config.auth_link
                /\ build_config'.action_options = build_config.action_options
                /\ build_config'.action_value = build_config.action_value
          /\ (event'.field_name \notin {"api_key", "app_names"}
                \/ ~KeyGiven(event'.api_key)) =>
                /\ build_config' = build_config
                /\ calls' = <<>>
                /\ ~result'.raised ]_vars

\* an api_key event changed the selected app and kept an earlier status
C9_Witness ==
    /\ ApiKeyEvent /\ ~result.raised
    /\ build_config.app_value = <<"G","I","T","_","C","O","N","N","E","C","T","E","D">>
    /\ build_config.auth_status = <<"G","I","T","H","U","B"," ","C","O","N","N","E","C","T","E","D">>
    /\ build_config.action_options # <<>>

\* C10: one update_build_config call initiates a connection at most once, and only
\* on an app_names event with a non-empty API key, after the lookup of the normalized
\* app reported 'not found' and the first auth scheme is not API_KEY.
C10_InitiationOnlyForLinkAuth ==
    IsUpdate =>
        /\ Cardinality(CallsOf(InitiateOps)) <= 1
        /\ \A i \in CallsOf(InitiateOps) :
             /\ AppNamesEvent
             /\ calls[i].app = NormalizedName
             /\ \E j \in CallsOf({"get_connection"}) :
                  j < i /\ calls[j].app = NormalizedName /\ calls[j].exc = "NoItemsFound"
             /\ \E j \in CallsOf({"apps.get"}) :
                  /\ j < i /\ calls[j].exc = "none"
                  /\ Len(calls[j].value) > 0 /\ calls[j].value[1] # API_KEY_MODE

C10_Witness ==
    /\ IsUpdate
    /\ \E i \in CallsOf(InitiateOps) : calls[i].exc = "none"
    /\ build_config.auth_status = CLICK_LINK
====
